---- MODULE Spec2Model ----
(***************************************************************************)
(* A model of src/trello_cli.py: one run of the command-line client, from  *)
(* main() through Cli.getConfig, Cli.action and Trello.request to the      *)
(* process exit.  Texts (messages, standard output, JSON bodies) are       *)
(* sequences of tokens; the --label_ids value is a sequence of characters. *)
(***************************************************************************)
EXTENDS Integers, Sequences, FiniteSets, TLC

VARIABLES
    environ,    \* TRELLO_API_KEY and TRELLO_API_TOKEN of the process environment
    argv,       \* the command line, one entry per option
    pc,         \* where main() stands
    args,       \* the dictionary getConfig returned
    http,       \* the HTTP requests issued so far, in order
    called,     \* the Trello methods invoked so far, in order
    response,   \* the HTTP response r of Trello.request
    result,     \* what the Trello method returned to Cli.action
    stdout, stderr, exitCode,
    raised      \* the exception main() caught: its type and its message

vars == <<environ, argv, pc, args, http, called, response, result, stdout,
          stderr, exitCode, raised>>

(* ------------------------------ bounds --------------------------------- *)

\* longest JSON array the service answers with
MaxRecords == 2

\* longest --label_ids value, in characters
MaxLabelLen == 3

(* ------------------------------ values --------------------------------- *)

\* Python's None, for an option that was not given
None == "<None>"

\* `not x` is false exactly for a non-empty string
Truthy(x) == x # None /\ x # ""

ActionFlags == <<"list_boards", "list_columns", "list_labels", "add_card",
                 "add_comment">>

DataFields == {"board_id", "list_id", "card_id", "name", "description",
               "comment"}

\* the value a data option carries when it is given and non-empty
FieldValue(f) ==
    CASE f = "board_id" -> "B1"
      [] f = "list_id" -> "L1"
      [] f = "card_id" -> "C1"
      [] f = "name" -> "Name"
      [] f = "description" -> "Desc"
      [] f = "comment" -> "hi"

\* default="" of --label_ids
LabelIdsDefault == <<>>

LabelChars == {"a", "b", ",", " "}

RECURSIVE StringsUpTo(_)
StringsUpTo(n) ==
    IF n = 0 THEN {<<>>}
    ELSE LET shorter == StringsUpTo(n - 1)
         IN  shorter \cup {Append(s, c) : s \in shorter, c \in LabelChars}

(* ------------------------- command line parsing ------------------------ *)

\* parser.add_argument(..., default=os.environ.get(...)): the flag wins when
\* it is given, even if it is empty
WithDefault(given, default) == IF given # None THEN given ELSE default

IsWs(c) == c = " "

\* first index >= i of s that holds no whitespace (Len(s)+1 if none)
RECURSIVE WsRunEnd(_, _)
WsRunEnd(s, i) ==
    IF i <= Len(s) /\ IsWs(s[i]) THEN WsRunEnd(s, i + 1) ELSE i

\* the index after a match of \s+,\s+ that starts at i, or 0 if none starts
\* there
MatchEnd(s, i) ==
    IF i <= Len(s) /\ IsWs(s[i])
    THEN LET e == WsRunEnd(s, i)
         IN  IF e + 1 <= Len(s) /\ s[e] = "," /\ IsWs(s[e + 1])
             THEN WsRunEnd(s, e + 1)
             ELSE 0
    ELSE 0

RECURSIVE SplitFrom(_, _, _)
SplitFrom(s, pieceStart, i) ==
    IF i > Len(s) THEN <<SubSeq(s, pieceStart, Len(s))>>
    ELSE LET m == MatchEnd(s, i)
         IN  IF m # 0
             THEN <<SubSeq(s, pieceStart, i - 1)>> \o SplitFrom(s, m, m)
             ELSE SplitFrom(s, pieceStart, i + 1)

\* re.split("\s+,\s+", s)
ReSplit(s) == SplitFrom(s, 1, 1)

Parsed ==
    [key |-> WithDefault(argv.key, environ.TRELLO_API_KEY),
     token |-> WithDefault(argv.token, environ.TRELLO_API_TOKEN),
     list_boards |-> argv.list_boards,
     list_columns |-> argv.list_columns,
     list_labels |-> argv.list_labels,
     add_card |-> argv.add_card,
     add_comment |-> argv.add_comment,
     board_id |-> argv.board_id,
     list_id |-> argv.list_id,
     card_id |-> argv.card_id,
     name |-> argv.name,
     description |-> argv.description,
     comment |-> argv.comment,
     label_ids |-> argv.label_ids]

\* the slip of `and` for `or`
CredentialsMissing_OnlyBoth(parsed) ==
    ~Truthy(parsed.key) /\ ~Truthy(parsed.token)

\* if not parsed.key or not parsed.token
CredentialsMissing(parsed) == ~Truthy(parsed.key) \/ ~Truthy(parsed.token)

CredentialsMessage ==
    <<"--key", "and", "--token", "are", "required", "to", "interact", "with",
      "the", "Trello", "API.">>

\* the args dictionary getConfig returns
ArgsOf(parsed) == [parsed EXCEPT !.label_ids = ReSplit(parsed.label_ids)]

NoArgs ==
    [key |-> None, token |-> None, list_boards |-> FALSE,
     list_columns |-> FALSE, list_labels |-> FALSE, add_card |-> FALSE,
     add_comment |-> FALSE, board_id |-> None, list_id |-> None,
     card_id |-> None, name |-> None, description |-> None, comment |-> None,
     label_ids |-> <<>>]

(* ------------------------------ main ----------------------------------- *)

\* traceback.format_exc(): the header and frames, then "Type: message"
FormatExc(excType, msg) ==
    <<"Traceback (most recent call last):", "File", excType>> \o msg

\* the except clauses of main: exit(e) for a CliException, the formatted
\* traceback for every other exception; both leave through sys.exit with a
\* non-integer argument, which prints it on standard error and exits 1
Handled(excType, msg) ==
    IF excType = "CliException" THEN msg ELSE FormatExc(excType, msg)

Fail(excType, msg) ==
    /\ raised' = [type |-> excType, msg |-> msg]
    /\ stderr' = Handled(excType, msg)
    /\ exitCode' = 1
    /\ pc' = "done"

\* print(out): the text and a newline
PrintOut(out) == out \o <<"\n">>

(* ------------------------------ Trello --------------------------------- *)

BASE_URI == "https://api.trello.com"

HEADERS == [Accept |-> "application/json"]

\* query=None
NoQuery == <<>>

\* the url of Trello.request and what goes with it to requests.get/post
Request(method, uri, query) ==
    [method |-> method,
     url |-> [base |-> BASE_URI, path |-> uri,
              query |-> <<<<"key", args.key>>, <<"token", args.token>>>>],
     headers |-> HEADERS,
     params |-> query]

ListBoardsUri == <<"1", "members", "me", "boards">>

ListColumnsUri(boardId) == <<"1", "boards", boardId, "lists">>

\* the slip of copying the path of listColumns
ListLabelsUri_Lists(boardId) == <<"1", "boards", boardId, "lists">>

ListLabelsUri(boardId) == <<"1", "boards", boardId, "labels">>

AddCardUri == <<"1", "cards">>

AddCommentUri(cardId) == <<"1", "cards", cardId, "actions", "comments">>

\* sep.join(parts), on sequences of characters
RECURSIVE Join(_, _)
Join(parts, sep) ==
    IF Len(parts) = 0 THEN <<>>
    ELSE IF Len(parts) = 1 THEN parts[1]
    ELSE parts[1] \o sep \o Join(Tail(parts), sep)

AddCardQuery(listId, name, description, labels) ==
    [idList |-> listId, name |-> name, desc |-> description,
     idLabels |-> Join(labels, <<",">>)]

AddCommentQuery(cardId, comment) == [id |-> cardId, text |-> comment]

(* ---------------------- Cli.action, up to the call --------------------- *)

\* the branch of the if/elif chain that is taken
Selected(a) ==
    IF a.list_boards THEN "list_boards"
    ELSE IF a.list_columns THEN "list_columns"
    ELSE IF a.list_labels THEN "list_labels"
    ELSE IF a.add_card THEN "add_card"
    ELSE IF a.add_comment THEN "add_comment"
    ELSE "none"

ListColumnsMessage ==
    <<"--board_id", "is", "required", "to", "list", "columns.">>

ListLabelsMessage ==
    <<"--board_id", "is", "required", "to", "list", "labels.">>

AddCardMessage ==
    <<"--list_id", ",", "--name", ",", "and", "--description", "are",
      "required", "to", "add", "a", "card.">>

\* the slip of a message that leaves --comment out
AddCommentMessage_CardOnly ==
    <<"--card_id", "is", "required", "to", "add", "a", "comment.">>

AddCommentMessage ==
    <<"--card_id", "and", "--comment", "are", "required", "to", "add", "a",
      "comment.">>

\* the slip of a list that leaves --list-labels out
NoActionMessage_Four ==
    <<"Please", "specify", "an", "action:", "--list-boards", "--list-columns",
      "--add-card", "--add-comment", "or", "specify", "--help", "for", "more",
      "information.">>

NoActionMessage ==
    <<"Please", "specify", "an", "action:", "--list-boards", "--list-columns",
      "--list-labels", "--add-card", "--add-comment", "or", "specify",
      "--help", "for", "more", "information.">>

\* the slip of `and` for `or`
AddCardInvalid_All(a) ==
    ~Truthy(a.list_id) /\ ~Truthy(a.name) /\ ~Truthy(a.description)

\* if not args["list_id"] or not args["name"] or not args["description"]
AddCardInvalid(a) ==
    ~Truthy(a.list_id) \/ ~Truthy(a.name) \/ ~Truthy(a.description)

\* if not args["card_id"] or not args["comment"]
AddCommentInvalid(a) == ~Truthy(a.card_id) \/ ~Truthy(a.comment)

Raise(msg) == [raise |-> TRUE, msg |-> msg]

Call(op, req) == [raise |-> FALSE, op |-> op, req |-> req]

\* what Cli.action does before it blocks on the network: a CliException, or
\* one Trello method called, which issues one request
Dispatch(a) ==
    CASE Selected(a) = "list_boards" ->
            Call("listBoards", Request("GET", ListBoardsUri, NoQuery))
      [] Selected(a) = "list_columns" ->
            IF ~Truthy(a.board_id) THEN Raise(ListColumnsMessage)
            ELSE Call("listColumns",
                      Request("GET", ListColumnsUri(a.board_id), NoQuery))
      [] Selected(a) = "list_labels" ->
            IF ~Truthy(a.board_id) THEN Raise(ListLabelsMessage)
            ELSE Call("listLabels",
                      Request("GET", ListLabelsUri(a.board_id), NoQuery))
      [] Selected(a) = "add_card" ->
            IF AddCardInvalid(a) THEN Raise(AddCardMessage)
            ELSE Call("addCard",
                      Request("POST", AddCardUri,
                              AddCardQuery(a.list_id, a.name, a.description,
                                           a.label_ids)))
      [] Selected(a) = "add_comment" ->
            IF AddCommentInvalid(a) THEN Raise(AddCommentMessage)
            ELSE Call("addComment",
                      Request("POST", AddCommentUri(a.card_id),
                              AddCommentQuery(a.card_id, a.comment)))
      [] OTHER -> Raise(NoActionMessage)

(* --------------------------- the remote service ------------------------ *)

Statuses == {200, 401}

\* the texts of the JSON objects the service can answer with
ObjectTexts == {"{label}", "{board}"}

\* the object a text denotes: a label carries a colour, a board does not
JsonObject(tok) ==
    IF tok = "{label}" THEN [id |-> "l1", name |-> "Bugs", color |-> "red"]
    ELSE [id |-> "b1", name |-> "Board1"]

RECURSIVE SeqsUpTo(_, _)
SeqsUpTo(S, n) ==
    IF n = 0 THEN {<<>>}
    ELSE LET shorter == SeqsUpTo(S, n - 1)
         IN  shorter \cup {Append(s, x) : s \in shorter, x \in S}

\* the text of a JSON array of the given objects
RECURSIVE ArrayBody(_)
ArrayBody(objs) ==
    IF Len(objs) = 0 THEN <<>>
    ELSE IF Len(objs) = 1 THEN <<objs[1]>>
    ELSE <<objs[1], ",">> \o ArrayBody(Tail(objs))

ArrayText(objs) == <<"[">> \o ArrayBody(objs) \o <<"]">>

\* r.text: an array, a single object, or something that is no JSON
Bodies ==
    {ArrayText(objs) : objs \in SeqsUpTo(ObjectTexts, MaxRecords)}
        \cup {<<o>> : o \in ObjectTexts}
        \cup {<<"unauthorized">>, <<"[", "{board}">>}

(* ------------------------- Trello.request, the answer ------------------ *)

IsArrayText(t) ==
    /\ Len(t) >= 2
    /\ t[1] = "["
    /\ t[Len(t)] = "]"
    /\ \/ Len(t) = 2
       \/ /\ Len(t) % 2 = 1
          /\ \A i \in 2..(Len(t) - 1) :
                IF i % 2 = 0 THEN t[i] \in ObjectTexts ELSE t[i] = ","

NoValue == [kind |-> "none", items |-> <<>>]

\* json.loads(r.text)
JsonLoads(t) ==
    IF IsArrayText(t)
    THEN [kind |-> "array",
          items |-> [i \in 1..((Len(t) - 1) \div 2) |-> JsonObject(t[2 * i])]]
    ELSE IF Len(t) = 1 /\ t[1] \in ObjectTexts
    THEN [kind |-> "object", items |-> <<JsonObject(t[1])>>]
    ELSE [kind |-> "error", items |-> <<>>]

\* the slip of a message that leaves the body out
ApiErrorMessage_NoBody(status, text) ==
    <<"Trello", "API", "returned", "status", "code", ToString(status), ".",
      "response", "body:">>

\* f"Trello API returned status code {r.status_code}. response body: {r.text}"
ApiErrorMessage(status, text) ==
    <<"Trello", "API", "returned", "status", "code", ToString(status), ".",
      "response", "body:">> \o text

Returned(value) == [exc |-> "", msg |-> <<>>, value |-> value]

Thrown(excType, msg) == [exc |-> excType, msg |-> msg, value |-> NoValue]

\* lines 207-213: the parsed body on a 200, an ApiRequestException otherwise
Answer(r) ==
    IF 200 = r.status_code
    THEN LET parsed == JsonLoads(r.text)
         IN  IF parsed.kind = "error"
             THEN Thrown("JSONDecodeError", <<"Expecting", "value">>)
             ELSE Returned(parsed)
    ELSE Thrown("ApiRequestException", ApiErrorMessage(r.status_code, r.text))

(* ---------------------- Cli.action, after the call --------------------- *)

\* out += rec["id"] + " " + rec["name"] + "\n"
IdNameLine(rec) == <<rec.id, " ", rec.name, "\n">>

\* out += label["id"] + " " + label["name"] + " " + label["color"] + "\n"
LabelLine(rec) == <<rec.id, " ", rec.name, " ", rec.color, "\n">>

\* out += card["id"] + " added.\n"
AddedLine(rec) == <<rec.id, " added.", "\n">>

RECURSIVE Lines(_, _)
Lines(items, withColor) ==
    IF Len(items) = 0 THEN <<>>
    ELSE (IF withColor THEN LabelLine(items[1]) ELSE IdNameLine(items[1]))
            \o Lines(Tail(items), withColor)

\* the keys a line reads from a record
KeysRead(branch) ==
    CASE branch = "list_labels" -> <<"id", "name", "color">>
      [] branch \in {"list_boards", "list_columns"} -> <<"id", "name">>
      [] OTHER -> <<"id">>

Lacks(rec, keys) == \E i \in DOMAIN keys : keys[i] \notin DOMAIN rec

FirstLacked(rec, keys) ==
    keys[CHOOSE i \in DOMAIN keys :
            /\ keys[i] \notin DOMAIN rec
            /\ \A j \in 1..(i - 1) : keys[j] \in DOMAIN rec]

Printed(out) == [exc |-> "", msg |-> <<>>, out |-> out]

Broken(excType, msg) == [exc |-> excType, msg |-> msg, out |-> <<>>]

\* the loop or the single line of the branch taken, on the value the Trello
\* method returned; indexing a dictionary key (a string) or a list by "id"
\* is a TypeError, a missing key a KeyError
Format(branch, value) ==
    IF branch \in {"list_boards", "list_columns", "list_labels"}
    THEN IF value.kind = "object"
         THEN Broken("TypeError",
                     <<"string", "indices", "must", "be", "integers">>)
         ELSE IF \E i \in DOMAIN value.items :
                    Lacks(value.items[i], KeysRead(branch))
         THEN LET i == CHOOSE k \in DOMAIN value.items :
                        /\ Lacks(value.items[k], KeysRead(branch))
                        /\ \A j \in 1..(k - 1) :
                              ~Lacks(value.items[j], KeysRead(branch))
              IN  Broken("KeyError",
                         <<FirstLacked(value.items[i], KeysRead(branch))>>)
         ELSE Printed(Lines(value.items, branch = "list_labels"))
    ELSE IF value.kind = "array"
         THEN Broken("TypeError",
                     <<"list", "indices", "must", "be", "integers">>)
         ELSE IF Lacks(value.items[1], KeysRead(branch))
         THEN Broken("KeyError",
                     <<FirstLacked(value.items[1], KeysRead(branch))>>)
         ELSE Printed(AddedLine(value.items[1]))

(* ------------------------------ actions -------------------------------- *)

\* main: cli.getConfig()
GetConfig ==
    /\ pc = "main"
    /\ IF CredentialsMissing(Parsed)
       THEN /\ Fail("CliException", CredentialsMessage)
            /\ UNCHANGED args
       ELSE /\ args' = ArgsOf(Parsed)
            /\ pc' = "action"
            /\ UNCHANGED <<raised, stderr, exitCode>>
    /\ UNCHANGED <<environ, argv, http, called, response, result, stdout>>

\* main: cli.action(args), until the request is on the wire
Action ==
    /\ pc = "action"
    /\ LET d == Dispatch(args)
       IN  IF d.raise
           THEN /\ Fail("CliException", d.msg)
                /\ UNCHANGED <<http, called>>
           ELSE /\ called' = Append(called, d.op)
                /\ http' = Append(http, d.req)
                /\ pc' = "request"
                /\ UNCHANGED <<raised, stderr, exitCode>>
    /\ UNCHANGED <<environ, argv, args, response, result, stdout>>

\* the service answers the request
Respond ==
    /\ pc = "request"
    /\ \E status \in Statuses, text \in Bodies :
          response' = [status_code |-> status, text |-> text]
    /\ pc' = "response"
    /\ UNCHANGED <<environ, argv, args, http, called, result, stdout, stderr,
                   exitCode, raised>>

\* Trello.request returns or raises, Cli.action formats what it got, main
\* prints it or handles the exception
Finish ==
    /\ pc = "response"
    /\ LET a == Answer(response)
           f == Format(Selected(args), a.value)
       IN  IF a.exc # ""
           THEN /\ Fail(a.exc, a.msg)
                /\ UNCHANGED <<result, stdout>>
           ELSE /\ result' = a.value
                /\ IF f.exc # ""
                   THEN /\ Fail(f.exc, f.msg)
                        /\ UNCHANGED stdout
                   ELSE /\ stdout' = PrintOut(f.out)
                        /\ exitCode' = 0
                        /\ pc' = "done"
                        /\ UNCHANGED <<raised, stderr>>
    /\ UNCHANGED <<environ, argv, args, http, called, response>>

Next == GetConfig \/ Action \/ Respond \/ Finish

(* --------------------------- initial states ---------------------------- *)

Start ==
    /\ pc = "main"
    /\ args = NoArgs
    /\ http = <<>>
    /\ called = <<>>
    /\ response = [status_code |-> 0, text |-> <<>>]
    /\ result = NoValue
    /\ stdout = <<>>
    /\ stderr = <<>>
    /\ exitCode = -1
    /\ raised = [type |-> "", msg |-> <<>>]

Argv(key, token, flags, fields, labelIds) ==
    [key |-> key, token |-> token,
     list_boards |-> "list_boards" \in flags,
     list_columns |-> "list_columns" \in flags,
     list_labels |-> "list_labels" \in flags,
     add_card |-> "add_card" \in flags,
     add_comment |-> "add_comment" \in flags,
     board_id |-> fields["board_id"], list_id |-> fields["list_id"],
     card_id |-> fields["card_id"], name |-> fields["name"],
     description |-> fields["description"], comment |-> fields["comment"],
     label_ids |-> labelIds]

FlagSets == SUBSET {ActionFlags[i] : i \in DOMAIN ActionFlags}

\* all the data options given with their values, or none of them given
AllOrNone == {[f \in DataFields |-> FieldValue(f)],
              [f \in DataFields |-> None]}

\* every data option given with its value, given empty, or not given
GivenEmptyOrNot ==
    {[f \in DataFields |->
        IF f \in S THEN FieldValue(f) ELSE IF f \in E THEN "" ELSE None] :
            S \in SUBSET DataFields, E \in SUBSET DataFields}

\* any credentials, on the command line and in the environment; any flags
InitCredentials ==
    /\ environ \in [TRELLO_API_KEY : {None, "ek"},
                    TRELLO_API_TOKEN : {None, "et"}]
    /\ \E key \in {None, "", "k"}, token \in {None, "", "t"},
          flags \in FlagSets, fields \in AllOrNone :
          argv = Argv(key, token, flags, fields, LabelIdsDefault)

\* credentials on the command line; any flags; any data options, empty ones
\* too
InitFields ==
    /\ environ = [TRELLO_API_KEY |-> None, TRELLO_API_TOKEN |-> None]
    /\ \E flags \in FlagSets, fields \in GivenEmptyOrNot :
          argv = Argv("k", "t", flags, fields, LabelIdsDefault)

\* --add-card with its required options and any --label_ids value
InitLabels ==
    /\ environ = [TRELLO_API_KEY |-> "ek", TRELLO_API_TOKEN |-> "et"]
    /\ \E labelIds \in StringsUpTo(MaxLabelLen) :
          argv = Argv(None, None, {"add_card"},
                      [f \in DataFields |-> FieldValue(f)], labelIds)

Init == Start /\ (InitCredentials \/ InitFields \/ InitLabels)

Spec == Init /\ [][Next]_vars

(* ------------------------- what the claims speak of -------------------- *)

Mentions(msg, word) == \E i \in DOMAIN msg : msg[i] = word

ContainsText(msg, text) ==
    \E k \in 0..(Len(msg) - Len(text)) :
        SubSeq(msg, k + 1, k + Len(text)) = text

\* the credentials of the invocation, after the environment fallback
GivenKey == IF argv.key = None THEN environ.TRELLO_API_KEY ELSE argv.key

GivenToken ==
    IF argv.token = None THEN environ.TRELLO_API_TOKEN ELSE argv.token

Present(x) == x # None /\ x # ""

CredentialsGiven == Present(GivenKey) /\ Present(GivenToken)

FlagsSet == {f \in {ActionFlags[i] : i \in DOMAIN ActionFlags} : argv[f]}

\* the first action flag that is set, in the order of the if/elif chain
FirstFlag ==
    IF FlagsSet = {} THEN "none"
    ELSE ActionFlags[CHOOSE i \in DOMAIN ActionFlags :
                        /\ argv[ActionFlags[i]]
                        /\ \A j \in 1..(i - 1) : ~argv[ActionFlags[j]]]

\* the required-fields table
RequiredFields(action) ==
    CASE action \in {"list_columns", "list_labels"} -> {"board_id"}
      [] action = "add_card" -> {"list_id", "name", "description"}
      [] action = "add_comment" -> {"card_id", "comment"}
      [] OTHER -> {}

MissingFields(action) == {f \in RequiredFields(action) : ~Present(argv[f])}

\* how a usage message spells a field
SpelledAs(f) ==
    CASE f = "board_id" -> "--board_id"
      [] f = "list_id" -> "--list_id"
      [] f = "card_id" -> "--card_id"
      [] f = "name" -> "--name"
      [] f = "description" -> "--description"
      [] f = "comment" -> "--comment"

NamedFields(msg) == {f \in DataFields : Mentions(msg, SpelledAs(f))}

UsageError == pc = "done" /\ raised.type = "CliException"

MessageOnly ==
    /\ stderr = raised.msg
    /\ stdout = <<>>
    /\ exitCode # 0
    /\ exitCode # -1

\* the endpoint table
EndpointMethod(action) ==
    IF action \in {"list_boards", "list_columns", "list_labels"}
    THEN "GET" ELSE "POST"

EndpointPath(action) ==
    CASE action = "list_boards" -> <<"1", "members", "me", "boards">>
      [] action = "list_columns" -> <<"1", "boards", argv.board_id, "lists">>
      [] action = "list_labels" -> <<"1", "boards", argv.board_id, "labels">>
      [] action = "add_card" -> <<"1", "cards">>
      [] action = "add_comment" ->
            <<"1", "cards", argv.card_id, "actions", "comments">>

PassesValidation ==
    /\ CredentialsGiven
    /\ FlagsSet # {}
    /\ MissingFields(FirstFlag) = {}

(* ------------------------------- claims -------------------------------- *)

\* C1: an invocation whose key or token is absent or empty after the
\* environment fallback ends in a usage error that mentions --key and
\* --token, before any action is selected: no args dictionary, no Trello
\* method, no request.
C1_MissingCredentials ==
    (pc # "main" /\ ~CredentialsGiven) =>
        /\ UsageError
        /\ Mentions(raised.msg, "--key")
        /\ Mentions(raised.msg, "--token")
        /\ MessageOnly
        /\ args = NoArgs
        /\ called = <<>>
        /\ http = <<>>

\* an explicit empty --key hides the key of the environment
C1_Witness ==
    /\ UsageError
    /\ argv.key = ""
    /\ environ.TRELLO_API_KEY = "ek"
    /\ Present(GivenToken)
    /\ argv.add_card
    /\ argv.list_id # None
    /\ raised.msg = CredentialsMessage

C3_ExactlyOneFlag == (called # <<>>) => Cardinality(FlagsSet) = 1

\* C4: valid credentials and no action flag end in a usage error that lists
\* the five actions, whatever data fields are given.
C4_NoAction ==
    (CredentialsGiven /\ FlagsSet = {}) =>
        \/ pc \in {"main", "action"}
        \/ /\ UsageError
           /\ \A flag \in {"--list-boards", "--list-columns", "--list-labels",
                           "--add-card", "--add-comment"} :
                 Mentions(raised.msg, flag)
           /\ MessageOnly
           /\ http = <<>>

C4_Witness ==
    /\ UsageError
    /\ CredentialsGiven
    /\ FlagsSet = {}
    /\ argv.board_id # None
    /\ argv.comment # None
    /\ raised.msg = NoActionMessage

C6_Answer ==
    (pc = "done" /\ called # <<>>) =>
        /\ response.status_code # 200 =>
              /\ raised.type = "ApiRequestException"
              /\ Mentions(raised.msg, ToString(response.status_code))
              /\ ContainsText(raised.msg, response.text)
              /\ result = NoValue
              /\ stdout = <<>>
        /\ response.status_code = 200 =>
              /\ \A objs \in SeqsUpTo(ObjectTexts, MaxRecords) :
                    response.text = ArrayText(objs) =>
                        result = [kind |-> "array",
                                  items |-> [i \in DOMAIN objs |->
                                                JsonObject(objs[i])]]
              /\ \A o \in ObjectTexts :
                    response.text = <<o>> =>
                        result = [kind |-> "object",
                                  items |-> <<JsonObject(o)>>]

\* listColumns answered 401 "unauthorized"
C6_Witness ==
    /\ pc = "done"
    /\ called = <<"listColumns">>
    /\ response = [status_code |-> 401, text |-> <<"unauthorized">>]
    /\ raised.type = "ApiRequestException"

\* C7 as stated: an ApiRequestException is handled like a CliException, only
\* its message is printed.
C7_ApiErrorMessageOnly ==
    (pc = "done" /\ raised.type \in {"CliException", "ApiRequestException"})
        => MessageOnly

\* C8 as stated: on success standard output is exactly the lines of the
\* records, and nothing else.
C8_StdoutIsTheLines ==
    (pc = "done" /\ exitCode = 0) =>
        stdout = IF FirstFlag \in {"add_card", "add_comment"}
                 THEN AddedLine(result.items[1])
                 ELSE Lines(result.items, FirstFlag = "list_labels")

\* the ids of a comma-separated value: the pieces between the commas, none
\* for the empty value
RECURSIVE CommaSeparatedFrom(_, _, _)
CommaSeparatedFrom(s, pieceStart, i) ==
    IF i > Len(s) THEN <<SubSeq(s, pieceStart, Len(s))>>
    ELSE IF s[i] = ","
    THEN <<SubSeq(s, pieceStart, i - 1)>> \o CommaSeparatedFrom(s, i + 1, i + 1)
    ELSE CommaSeparatedFrom(s, pieceStart, i + 1)

CommaSeparated(s) == IF s = <<>> THEN <<>> ELSE CommaSeparatedFrom(s, 1, 1)

\* C9 as stated: labelIds is the sequence of the ids of the --label_ids
\* value, and the POST carries them joined by commas with idList, name and
\* desc.
C9_LabelIds ==
    (pc # "main" /\ CredentialsGiven /\ FirstFlag = "add_card") =>
        /\ args.label_ids = CommaSeparated(argv.label_ids)
        /\ (called = <<"addCard">>) =>
              /\ http[1].params.idLabels =
                    Join(CommaSeparated(argv.label_ids), <<",">>)
              /\ http[1].params.idList = argv.list_id
              /\ http[1].params.name = argv.name
              /\ http[1].params.desc = argv.description

\* C10: a usage error is raised with no request issued and no Trello method
\* called, and a request is issued only for credentials and required fields
\* of the selected action that are all non-empty.
C10_ValidationFirst ==
    /\ raised.type = "CliException" => (http = <<>> /\ called = <<>>)
    /\ (http # <<>> \/ called # <<>>) => PassesValidation

\* --add-comment with a card id and an empty comment
C10_Witness ==
    /\ UsageError
    /\ CredentialsGiven
    /\ FlagsSet = {"add_comment"}
    /\ argv.card_id = "C1"
    /\ argv.comment = ""
    /\ http = <<>>
    /\ raised.msg = AddCommentMessage

====
